---- MODULE Spec2Model ----
(***************************************************************************)
(* Model of the projection engine of the property investment calculator   *)
(* (src/app.py): calculate_pmt and the yearly recurrence of                *)
(* calculate_data, together with the widget conversions that produce its   *)
(* inputs.                                                                 *)
(*                                                                         *)
(* Python computes every amount in binary floating point.  The model keeps *)
(* that arithmetic: a float is a pair <<m, e>> standing for m * 2^e, every *)
(* operation computes the exact result and rounds it to the nearest value  *)
(* with MantBits significant bits, ties to even, as IEEE-754 does with 53  *)
(* bits.  The exponent is unbounded (no overflow, no subnormals).          *)
(* The canonical form has m odd, or <<0, 0>> for zero, so that equality of *)
(* pairs is equality of values.                                            *)
(***************************************************************************)
EXTENDS Integers, Sequences, FiniteSets, TLC

\* ------------------------------------------------------------------ bounds

\* Significant bits of a float (53 in the program, scaled down).
MantBits == 6
\* Largest horizon passed to calculate_data (30 in the program's one call).
MaxYears == 4
\* Largest loan term (the program fixes loan_term = 30, scaled down here).
MaxTerm == 3

\* ------------------------------------------------------- integer helpers

Abs(i) == IF i < 0 THEN -i ELSE i

Sgn(i) == IF i < 0 THEN -1 ELSE IF i = 0 THEN 0 ELSE 1

Min(i, j) == IF i <= j THEN i ELSE j

RECURSIVE Pow2(_)
Pow2(k) == IF k <= 0 THEN 1 ELSE 2 * Pow2(k - 1)

RECURSIVE IntPow(_, _)
IntPow(b, k) == IF k <= 0 THEN 1 ELSE b * IntPow(b, k - 1)

RECURSIVE BitLen(_)
BitLen(n) == IF n <= 0 THEN 0 ELSE 1 + BitLen(n \div 2)

\* ------------------------------------------------------- float arithmetic

RECURSIVE Canon(_, _)
Canon(m, e) ==
    IF m = 0 THEN <<0, 0>>
    ELSE IF m % 2 = 0 THEN Canon(m \div 2, e + 1)
    ELSE <<m, e>>

\* n * 2^e, n >= 0, rounded to MantBits bits, ties to even (not canonical).
RoundMag(n, e) ==
    LET k == BitLen(n) - MantBits IN
    IF k <= 0 THEN <<n, e>>
    ELSE LET q == n \div Pow2(k)
             r == n % Pow2(k)
             h == Pow2(k - 1)
             up == r > h \/ (r = h /\ q % 2 = 1)
         IN <<IF up THEN q + 1 ELSE q, e + k>>

\* The float nearest to the exact value m * 2^e.
Rnd(m, e) ==
    LET r == RoundMag(Abs(m), e) IN Canon(Sgn(m) * r[1], r[2])

\* Position of the leading bit: 2^(Top-1) <= |a| < 2^Top.
Top(a) == a[2] + BitLen(Abs(a[1]))

FZero == <<0, 0>>

FOne == <<1, 0>>

\* int -> float
FromInt(i) == Rnd(i, 0)

FNeg(a) == <<-a[1], a[2]>>

\* a + b.  An operand below a quarter of the other's last place cannot
\* change the rounded sum; otherwise the exact sum is rounded.
FAdd(a, b) ==
    IF a[1] = 0 THEN b
    ELSE IF b[1] = 0 THEN a
    ELSE IF Top(a) - Top(b) >= MantBits + 2 THEN a
    ELSE IF Top(b) - Top(a) >= MantBits + 2 THEN b
    ELSE LET e == Min(a[2], b[2])
         IN Rnd(a[1] * Pow2(a[2] - e) + b[1] * Pow2(b[2] - e), e)

FSub(a, b) == FAdd(a, FNeg(b))

FMul(a, b) == Rnd(a[1] * b[1], a[2] + b[2])

\* Long division: (q + rem/d) * 2^e with rem < d, carried on until q has
\* MantBits + 2 bits; the remainder is kept as a sticky last bit.
RECURSIVE LongDiv(_, _, _, _)
LongDiv(q, rem, d, e) ==
    IF q >= Pow2(MantBits + 1)
    THEN <<2 * q + (IF rem > 0 THEN 1 ELSE 0), e - 1>>
    ELSE IF 2 * rem >= d
         THEN LongDiv(2 * q + 1, 2 * rem - d, d, e - 1)
         ELSE LongDiv(2 * q, 2 * rem, d, e - 1)

\* The float nearest to n / d * 2^e, for integers n >= 0 and d > 0.
RoundRat(n, d, e) ==
    IF n = 0 THEN FZero
    ELSE LET x == LongDiv(n \div d, n % d, d, e) IN Rnd(x[1], x[2])

\* a / b for b # 0.
FDiv(a, b) ==
    LET r == RoundRat(Abs(a[1]), Abs(b[1]), a[2] - b[2])
    IN <<Sgn(a[1]) * Sgn(b[1]) * r[1], r[2]>>

\* a ** k for an integer k >= 0 (a ** 0 is 1.0).
FPow(a, k) == Rnd(IntPow(a[1], k), a[2] * k)

\* a ** -k for an integer k > 0 and a # 0.
FPowNeg(a, k) ==
    LET r == RoundRat(1, IntPow(Abs(a[1]), k), -(a[2] * k))
    IN <<(IF a[1] < 0 /\ k % 2 = 1 THEN -1 ELSE 1) * r[1], r[2]>>

FLt(a, b) == FSub(a, b)[1] < 0

FLe(a, b) == FSub(a, b)[1] <= 0

\* int(a): truncation toward zero.
IntTrunc(a) ==
    IF a[2] >= 0 THEN a[1] * Pow2(a[2])
    ELSE IF -a[2] >= BitLen(Abs(a[1])) THEN 0
    ELSE Sgn(a[1]) * (Abs(a[1]) \div Pow2(-a[2]))

\* A decimal literal or widget value n / d as a float.
FDec(n, d) ==
    LET r == RoundRat(Abs(n), d, 0) IN <<Sgn(n) * r[1], r[2]>>

\* ------------------------------------------------------------------ inputs

IO == "IO"

PI == "P&I"

\* The sidebar's values, as the widgets hand them over: integers for the
\* integer number_inputs and sliders, tenths for the 0.1-step float widgets,
\* thousandths for the tax bracket.  years is the argument of calculate_data.
ValidInputs ==
    [ buy_price : {40, 48},
      stamp_duty : {2},
      loan_pct : {0, 80},
      interest_tenths : {0, 60, 125},
      loan_term : 1..MaxTerm,
      repayment_type : {IO, PI},
      weekly_rent : {1},
      vacancy_pct : {4},
      capital_growth_tenths : {0, 50},
      rental_growth_tenths : {35},
      council_rates : {1},
      water_rates : {1},
      strata_fees : {0},
      insurance : {1},
      land_tax : {1},
      mgmt_fee_tenths : {66},
      maintain_tenths : {10},
      tax_thousandths : {325, 370, 450},
      depreciation_first_year : {0, 8, 56},
      years : 1..MaxYears ]

\* Inputs the program accepts although they lie outside the documented
\* domains: the number_inputs have no minimum, and calculate_data takes any
\* years.  (loan_term <= 0 stands for a term already exhausted.)
AnyInputs ==
    [ buy_price : {-40, 40},
      stamp_duty : {2},
      loan_pct : {80},
      interest_tenths : {-1000, 0, 60},
      loan_term : 0..MaxTerm,
      repayment_type : {IO, PI},
      weekly_rent : {-1, 1},
      vacancy_pct : {4},
      capital_growth_tenths : {50},
      rental_growth_tenths : {35},
      council_rates : {1},
      water_rates : {1},
      strata_fees : {0},
      insurance : {1},
      land_tax : {1},
      mgmt_fee_tenths : {66},
      maintain_tenths : {10},
      tax_thousandths : {370},
      depreciation_first_year : {8},
      years : 0..MaxYears ]

\* The domain constraints of the Assumptions table.
Valid(i) ==
    /\ i.buy_price > 0
    /\ i.stamp_duty >= 0
    /\ i.loan_pct \in 0..100
    /\ i.interest_tenths >= 0
    /\ i.loan_term >= 1
    /\ i.weekly_rent >= 0
    /\ i.vacancy_pct \in 0..100
    /\ i.capital_growth_tenths > -1000
    /\ i.rental_growth_tenths > -1000
    /\ i.council_rates + i.water_rates + i.strata_fees
           + i.insurance + i.land_tax >= 0
    /\ i.mgmt_fee_tenths >= 0
    /\ i.maintain_tenths >= 0
    /\ i.tax_thousandths \in 0..1000
    /\ i.depreciation_first_year >= 0
    /\ i.years >= 1

VARIABLES
    inp,                  \* the inputs of this run
    pc,                   \* "loop", "returned" or "raised"
    year,                 \* the loop variable: the next year to compute
    current_value,
    loan_amount,
    current_weekly_rent,
    cumulative_cashflow,
    current_depreciation,
    data,                 \* the records appended so far
    steps                 \* the loop body's locals, one entry per iteration

vars == <<inp, pc, year, current_value, loan_amount, current_weekly_rent,
          cumulative_cashflow, current_depreciation, data, steps>>

loan_ratio == FDiv(FromInt(inp.loan_pct), FromInt(100))

interest_rate == FDiv(FDec(inp.interest_tenths, 10), FromInt(100))

vacancy_rate == FDiv(FromInt(inp.vacancy_pct), FromInt(100))

capital_growth == FDiv(FDec(inp.capital_growth_tenths, 10), FromInt(100))

rental_growth == FDiv(FDec(inp.rental_growth_tenths, 10), FromInt(100))

cpi == FDec(3, 100)

mgmt_fee_pct == FDiv(FDec(inp.mgmt_fee_tenths, 10), FromInt(100))

maintain_pct == FDiv(FDec(inp.maintain_tenths, 10), FromInt(100))

tax_rate == FDec(inp.tax_thousandths, 1000)

\* The factor of "current_depreciation *= 0.9".
depreciation_factor == FDec(9, 10)

\* loan_amount = buy_price * loan_ratio, before the loop.
initial_loan == FMul(FromInt(inp.buy_price), loan_ratio)

initial_cash_invested ==
    FAdd(FSub(FromInt(inp.buy_price), initial_loan), FromInt(inp.stamp_duty))

\* ----------------------------------------------------------- calculate_pmt

\* The annual repayment, or raised = TRUE where Python raises
\* ZeroDivisionError (0.0 ** -nper, or a zero divisor).
calculate_pmt(rate, nper, pv) ==
    IF rate = FZero
    THEN [raised |-> FALSE, value |-> FDiv(pv, FromInt(nper))]
    ELSE LET base == FAdd(FOne, rate) IN
         IF base = FZero
         THEN [raised |-> TRUE, value |-> FZero]
         ELSE LET den == FSub(FOne, FPowNeg(base, nper)) IN
              IF den = FZero
              THEN [raised |-> TRUE, value |-> FZero]
              ELSE [raised |-> FALSE, value |-> FDiv(FMul(rate, pv), den)]

\* ------------------------------------------------------------ calculate_data

\* sum(expenses_base.values()): the five integer costs, summed as integers.
expenses_sum ==
    inp.council_rates + inp.water_rates + inp.strata_fees
        + inp.insurance + inp.land_tax

\* if repayment_type == "只还利息 (IO)"
IsInterestOnlyAsAmortizing == inp.repayment_type = PI

IsInterestOnly == inp.repayment_type = IO

\* years_remain = loan_term - (year - 1)
YearsRemainFromZero(y) == inp.loan_term - y

YearsRemain(y) == inp.loan_term - (y - 1)

\* The repayment split of one year: interest_payment and principal_payment,
\* or raised = TRUE when calculate_pmt raises.
Repayment(y, loan) ==
    IF IsInterestOnly
    THEN [raised |-> FALSE,
          interest_payment |-> FMul(loan, interest_rate),
          principal_payment |-> FZero]
    ELSE LET years_remain == YearsRemain(y) IN
         IF years_remain > 0
         THEN LET annual_repayment ==
                      calculate_pmt(interest_rate, years_remain, loan)
                  interest == FMul(loan, interest_rate)
              IN [raised |-> annual_repayment.raised,
                  interest_payment |-> interest,
                  principal_payment |-> FSub(annual_repayment.value, interest)]
         ELSE [raised |-> FALSE,
               interest_payment |-> FZero,
               principal_payment |-> FZero]

\* annual_rent_gross = current_weekly_rent * 52
GrossRentAfterGrowth(rent) ==
    FMul(FMul(rent, FAdd(FOne, rental_growth)), FromInt(52))

GrossRent(rent) == FMul(rent, FromInt(52))

\* tax_impact = taxable_income * tax_rate
TaxImpact(taxable_income) == FMul(taxable_income, tax_rate)

\* post_tax_cashflow = pre_tax_cashflow - tax_impact
PostTaxAdded(pre_tax_cashflow, tax_impact) == FAdd(pre_tax_cashflow, tax_impact)

PostTax(pre_tax_cashflow, tax_impact) == FSub(pre_tax_cashflow, tax_impact)

\* cumulative_cashflow += post_tax_cashflow
AccumulateOverwriting(cum, post_tax_cashflow) == post_tax_cashflow

Accumulate(cum, post_tax_cashflow) == FAdd(cum, post_tax_cashflow)

\* loan_amount -= principal_payment
ReduceLoanAdded(loan, principal_payment) == FAdd(loan, principal_payment)

ReduceLoan(loan, principal_payment) == FSub(loan, principal_payment)

\* current_value = current_value * (1 + capital_growth)
GrowByRentalGrowth(value) == FMul(value, FAdd(FOne, rental_growth))

Grow(value) == FMul(value, FAdd(FOne, capital_growth))

\* current_weekly_rent *= (1 + rental_growth)
GrowRent(rent) == FMul(rent, FAdd(FOne, rental_growth))

\* current_depreciation *= 0.9
DecayDepreciationByFactor(dep) == FMul(dep, FSub(FOne, depreciation_factor))

DecayDepreciation(dep) == FMul(dep, depreciation_factor)

\* The loop body, statement group by statement group.  Each step takes the
\* locals computed so far (a record) and adds its own.

\* annual_rent_gross, vacancy_loss, effective_rent
RentStep(s) ==
    s @@ [effective_rent |->
              FSub(GrossRent(s.rent_start),
                   FMul(GrossRent(s.rent_start), vacancy_rate))]

\* interest_payment, principal_payment (or the exception of calculate_pmt)
RepaymentStep(s) == s @@ Repayment(s.year, s.loan_start)

\* inflation_multiplier, current_fixed_expenses, mgmt_fee, maintenance
ExpenseStep(s) ==
    s @@ [current_fixed_expenses |->
              FMul(FromInt(expenses_sum), FPow(FAdd(FOne, cpi), s.year - 1)),
          mgmt_fee |-> FMul(s.effective_rent, mgmt_fee_pct),
          maintenance |-> FMul(s.effective_rent, maintain_pct)]

\* total_cash_expenses, pre_tax_cashflow, tax_deductible_expenses,
\* taxable_income
CashflowStep(s) ==
    s @@ [pre_tax_cashflow |->
              FSub(s.effective_rent,
                   FAdd(FAdd(FAdd(FAdd(s.interest_payment,
                                       s.principal_payment),
                                  s.current_fixed_expenses),
                             s.mgmt_fee), s.maintenance)),
          taxable_income |->
              FSub(s.effective_rent,
                   FAdd(FAdd(FAdd(FAdd(s.interest_payment,
                                       s.current_fixed_expenses),
                                  s.mgmt_fee), s.maintenance),
                        s.depreciation))]

\* tax_impact
TaxStep(s) == s @@ [tax_impact |-> TaxImpact(s.taxable_income)]

\* post_tax_cashflow
PostTaxStep(s) ==
    s @@ [post_tax_cashflow |-> PostTax(s.pre_tax_cashflow, s.tax_impact)]

\* cumulative_cashflow += ..., loan_amount -= ..., current_value = ...
UpdateStep(s) ==
    s @@ [cumulative_cashflow |->
              Accumulate(s.cumulative_start, s.post_tax_cashflow),
          loan_amount |-> ReduceLoan(s.loan_start, s.principal_payment),
          current_value |-> Grow(s.value_start)]

\* net_wealth
NetWealthStep(s) ==
    s @@ [net_wealth |->
              FAdd(FSub(FSub(s.current_value, s.loan_amount),
                        initial_cash_invested),
                   s.cumulative_cashflow)]

\* One pass of the loop body for year y, from the carried values, up to the
\* record: every local of the body, and the carried values as updated.
Body(y, value, loan, rent, cum, dep) ==
    NetWealthStep(UpdateStep(PostTaxStep(TaxStep(CashflowStep(ExpenseStep(
        RepaymentStep(RentStep(
            [year |-> y,
             value_start |-> value,
             loan_start |-> loan,
             rent_start |-> rent,
             cumulative_start |-> cum,
             depreciation |-> dep]))))))))

\* The dictionary appended to data.
RecordFromZero(b) ==
    [Year |-> b.year - 1,
     MarketValue |-> IntTrunc(b.current_value),
     AnnualRent |-> IntTrunc(b.effective_rent),
     AnnualCashflow |-> IntTrunc(b.post_tax_cashflow),
     CumulativeCashflow |-> IntTrunc(b.cumulative_cashflow),
     RealTotalReturn |-> IntTrunc(b.net_wealth)]

Record(b) ==
    [Year |-> b.year,
     MarketValue |-> IntTrunc(b.current_value),
     AnnualRent |-> IntTrunc(b.effective_rent),
     AnnualCashflow |-> IntTrunc(b.post_tax_cashflow),
     CumulativeCashflow |-> IntTrunc(b.cumulative_cashflow),
     RealTotalReturn |-> IntTrunc(b.net_wealth)]

\* The assignments before the loop.
Start(inputs) ==
    /\ inp \in inputs
    /\ pc = "loop"
    /\ year = 1
    /\ current_value = FromInt(inp.buy_price)
    /\ loan_amount = initial_loan
    /\ current_weekly_rent = FromInt(inp.weekly_rent)
    /\ cumulative_cashflow = FZero
    /\ current_depreciation = FromInt(inp.depreciation_first_year)
    /\ data = <<>>
    /\ steps = <<>>

Init == Start(ValidInputs)

\* One iteration of "for year in range(1, years + 1)".  A
\* ZeroDivisionError in calculate_pmt leaves the function: nothing is
\* returned.
Iterate ==
    /\ pc = "loop"
    /\ year <= inp.years
    /\ \E b \in {Body(year, current_value, loan_amount, current_weekly_rent,
                        cumulative_cashflow, current_depreciation)} :
          IF b.raised
          THEN /\ pc' = "raised"
               /\ UNCHANGED <<inp, year, current_value, loan_amount,
                              current_weekly_rent, cumulative_cashflow,
                              current_depreciation, data, steps>>
          ELSE /\ cumulative_cashflow' = b.cumulative_cashflow
               /\ loan_amount' = b.loan_amount
               /\ current_value' = b.current_value
               /\ data' = Append(data, Record(b))
               /\ steps' = Append(steps, b)
               /\ current_weekly_rent' = GrowRent(current_weekly_rent)
               /\ current_depreciation' =
                      DecayDepreciation(current_depreciation)
               /\ year' = year + 1
               /\ UNCHANGED <<inp, pc>>

\* "return pd.DataFrame(data)" once the range is exhausted.
Return ==
    /\ pc = "loop"
    /\ year > inp.years
    /\ pc' = "returned"
    /\ UNCHANGED <<inp, year, current_value, loan_amount, current_weekly_rent,
                   cumulative_cashflow, current_depreciation, data, steps>>

Next == Iterate \/ Return

Spec == Init /\ [][Next]_vars

\* The same function on any input the program accepts.
InitAny == Start(AnyInputs)

SpecAny == InitAny /\ [][Next]_vars

\* ------------------------------------------------------------------ claims

Years == 1..Len(steps)

Amortizing == inp.repayment_type = PI

C2_InvalidInputsRejected ==
    ~Valid(inp) => (data = <<>> /\ pc # "returned")

RECURSIVE SumAnnualCashflow(_)
SumAnnualCashflow(k) ==
    IF k = 0 THEN 0 ELSE SumAnnualCashflow(k - 1) + data[k].AnnualCashflow

RECURSIVE RunningTotal(_)
RunningTotal(k) ==
    IF k = 0 THEN FZero
    ELSE FAdd(RunningTotal(k - 1), steps[k].post_tax_cashflow)

\* C3 as stated: the Cumulative Cashflow of the year-k record equals the sum
\* of the Annual Cashflow values of the records of years 1..k.
C3_CumulativeIsSumOfRecords ==
    \A k \in 1..Len(data) : data[k].CumulativeCashflow = SumAnnualCashflow(k)

\* C3 amended: the cumulative cashflow of year k is the sum, accumulated in
\* year order, of the untruncated post-tax cashflows of years 1..k, and the
\* record holds that total and each year's cashflow truncated to integers.
C3_CumulativeIsTruncatedRunningTotal ==
    \A k \in Years :
        /\ steps[k].cumulative_cashflow = RunningTotal(k)
        /\ data[k].CumulativeCashflow = IntTrunc(RunningTotal(k))
        /\ data[k].AnnualCashflow = IntTrunc(steps[k].post_tax_cashflow)

C3_Witness ==
    /\ Len(data) >= 3
    /\ data[3].CumulativeCashflow # data[2].CumulativeCashflow
    /\ data[2].CumulativeCashflow # data[1].CumulativeCashflow

\* |a| <= 2^(5 - MantBits) * initial loan: zero up to rounding.
WithinRounding(a) ==
    FLe(<<Abs(a[1]), a[2] + MantBits - 5>>, initial_loan)

\* C4 as stated: under P&I the balance after year loan_term is exactly 0,
\* stays 0 afterwards, and interest and principal are 0 after loan_term.
C4_BalanceExactlyZero ==
    Amortizing =>
        \A k \in Years :
            /\ k >= inp.loan_term => steps[k].loan_amount = FZero
            /\ k > inp.loan_term =>
                   /\ steps[k].interest_payment = FZero
                   /\ steps[k].principal_payment = FZero

\* C4 amended: under P&I the balance after year loan_term is 0 up to
\* floating-point rounding, keeps that value in every later year, and
\* interest and principal are exactly 0 after loan_term.
C4_BalanceZeroWithinRounding ==
    Amortizing =>
        \A k \in Years :
            /\ k >= inp.loan_term =>
                   /\ WithinRounding(steps[k].loan_amount)
                   /\ steps[k].loan_amount = steps[inp.loan_term].loan_amount
            /\ k > inp.loan_term =>
                   /\ steps[k].interest_payment = FZero
                   /\ steps[k].principal_payment = FZero

C4_Witness ==
    /\ Amortizing
    /\ inp.loan_pct > 0
    /\ inp.loan_term >= 2
    /\ Len(steps) > inp.loan_term

\* C5: under interest-only the balance is buy_price * loan_ratio after every
\* iteration, the principal paid is 0 and the interest is that balance times
\* interest_rate, every year.
C5_InterestOnlyBalanceConstant ==
    inp.repayment_type = IO =>
        /\ loan_amount = FMul(FromInt(inp.buy_price), loan_ratio)
        /\ \A k \in Years :
               /\ steps[k].loan_amount = FMul(FromInt(inp.buy_price), loan_ratio)
               /\ steps[k].principal_payment = FZero
               /\ steps[k].interest_payment =
                      FMul(FMul(FromInt(inp.buy_price), loan_ratio),
                           interest_rate)

C5_Witness ==
    /\ inp.repayment_type = IO
    /\ Len(steps) >= 3
    /\ steps[3].interest_payment # FZero

\* C6 as stated: under P&I the balance never increases from one year to the
\* next (the principal paid is >= 0) and never becomes negative.
C6_BalanceNonIncreasingNonNegative ==
    Amortizing =>
        \A k \in Years :
            /\ steps[k].principal_payment[1] >= 0
            /\ FLe(steps[k].loan_amount, steps[k].loan_start)
            /\ steps[k].loan_amount[1] >= 0

\* C6 amended: under P&I the balance never increases (the principal paid is
\* >= 0) and is non-negative before the last year of the term; the last
\* repayment may overshoot by a rounding error.
C6_BalanceNonIncreasing ==
    Amortizing =>
        \A k \in Years :
            /\ steps[k].principal_payment[1] >= 0
            /\ FLe(steps[k].loan_amount, steps[k].loan_start)
            /\ k > 1 => steps[k].loan_start = steps[k - 1].loan_amount
            /\ k < inp.loan_term => steps[k].loan_amount[1] >= 0

C6_Witness ==
    /\ Amortizing
    /\ Len(steps) >= 2
    /\ FLt(steps[2].loan_amount, steps[1].loan_amount)
    /\ FLt(steps[1].loan_amount, initial_loan)

\* C7 as stated: when taxable income is negative, tax_impact is negative
\* and the post-tax cashflow is strictly greater than the pre-tax cashflow.
C7_RefundRaisesCashflow ==
    \A k \in Years :
        steps[k].taxable_income[1] < 0 =>
            /\ steps[k].tax_impact[1] < 0
            /\ FLt(steps[k].pre_tax_cashflow, steps[k].post_tax_cashflow)

\* C7 amended: when taxable income is negative, tax_impact is negative and
\* the post-tax cashflow is not below the pre-tax cashflow.
C7_RefundNeverLowersCashflow ==
    \A k \in Years :
        steps[k].taxable_income[1] < 0 =>
            /\ steps[k].tax_impact[1] < 0
            /\ FLe(steps[k].pre_tax_cashflow, steps[k].post_tax_cashflow)

C7_Witness ==
    \E k \in Years :
        /\ steps[k].taxable_income[1] < 0
        /\ FLt(steps[k].pre_tax_cashflow, steps[k].post_tax_cashflow)

\* C8: with capital_growth = 0 the Market Value of every record equals
\* buy_price.
C8_MarketValueConstant ==
    inp.capital_growth_tenths = 0 =>
        \A k \in 1..Len(data) : data[k].MarketValue = inp.buy_price

C8_Witness == inp.capital_growth_tenths = 0 /\ Len(data) >= 3

\* The carried values at the start of year k, by their recurrences.
RECURSIVE RentAtStart(_)
RentAtStart(k) ==
    IF k <= 1 THEN FromInt(inp.weekly_rent)
    ELSE FMul(RentAtStart(k - 1), FAdd(FOne, rental_growth))

RECURSIVE DepreciationWithFactor(_, _)
DepreciationWithFactor(f, k) ==
    IF k <= 1 THEN FromInt(inp.depreciation_first_year)
    ELSE FMul(DepreciationWithFactor(f, k - 1), f)

RECURSIVE ValueAfter(_)
ValueAfter(k) ==
    IF k <= 0 THEN FromInt(inp.buy_price)
    ELSE FMul(ValueAfter(k - 1), FAdd(FOne, capital_growth))

BalanceBefore(k) == IF k = 1 THEN initial_loan ELSE steps[k - 1].loan_amount

EffectiveRentOf(rent) ==
    FSub(FMul(rent, FromInt(52)),
         FMul(FMul(rent, FromInt(52)), vacancy_rate))

\* C9: year k's interest, cashflow and tax come from the start-of-year
\* balance, rent and depreciation; the year-k record reports the value grown
\* k times and a net wealth made of the balance after the year-k principal
\* and the cumulative cashflow including year k; rent growth and
\* depreciation decay first affect year k + 1.
C9_StepOrder ==
    /\ \A k \in Years :
           LET s == steps[k] IN
           /\ s.loan_start = BalanceBefore(k)
           /\ (inp.repayment_type = IO \/ k <= inp.loan_term) =>
                  s.interest_payment = FMul(BalanceBefore(k), interest_rate)
           /\ s.loan_amount = FSub(BalanceBefore(k), s.principal_payment)
           /\ s.effective_rent = EffectiveRentOf(RentAtStart(k))
           /\ data[k].AnnualRent = IntTrunc(EffectiveRentOf(RentAtStart(k)))
           /\ s.taxable_income =
                  FSub(s.effective_rent,
                       FAdd(FAdd(FAdd(FAdd(s.interest_payment,
                                           s.current_fixed_expenses),
                                      s.mgmt_fee), s.maintenance),
                            DepreciationWithFactor(FDec(9, 10), k)))
           /\ s.pre_tax_cashflow =
                  FSub(s.effective_rent,
                       FAdd(FAdd(FAdd(FAdd(s.interest_payment,
                                           s.principal_payment),
                                      s.current_fixed_expenses),
                                 s.mgmt_fee), s.maintenance))
           /\ data[k].MarketValue = IntTrunc(ValueAfter(k))
           /\ s.net_wealth =
                  FAdd(FSub(FSub(ValueAfter(k), s.loan_amount),
                            initial_cash_invested),
                       RunningTotal(k))
           /\ data[k].RealTotalReturn = IntTrunc(s.net_wealth)
    /\ pc # "raised" =>
           /\ year = Len(steps) + 1
           /\ current_weekly_rent = RentAtStart(year)
           /\ current_depreciation = DepreciationWithFactor(FDec(9, 10), year)
           /\ current_value = ValueAfter(year - 1)
           /\ loan_amount = BalanceBefore(year)

C9_Witness ==
    /\ Amortizing
    /\ Len(steps) >= 2
    /\ steps[2].principal_payment[1] > 0
    /\ steps[2].rent_start # steps[1].rent_start
    /\ steps[2].depreciation # steps[1].depreciation
    /\ data[2].MarketValue # data[1].MarketValue

\* Decay rates (percent) a caller could supply.
DecayPercents == {0, 10, 50, 100}

\* C10 as stated: for every supplied decay rate d the depreciation deducted
\* in year k is first-year depreciation times (1 - d)^(k - 1).
C10_DecayFollowsSuppliedRate ==
    \A d \in DecayPercents :
        \A k \in Years :
            steps[k].depreciation =
                DepreciationWithFactor(FSub(FOne, FDec(d, 100)), k)

\* C10 amended: the depreciation deducted in year k is the first-year
\* depreciation multiplied k - 1 times by the fixed factor 0.9, whatever
\* decay rate is wanted; it has no floor and is never set to zero.
C10_DecayIsFixedFactor ==
    \A k \in Years :
        /\ steps[k].depreciation = DepreciationWithFactor(FDec(9, 10), k)
        /\ inp.depreciation_first_year > 0 => steps[k].depreciation[1] > 0

C10_Witness ==
    /\ Len(steps) >= 3
    /\ steps[1].depreciation[1] > 0
    /\ FLt(steps[3].depreciation, steps[2].depreciation)
    /\ FLt(steps[2].depreciation, steps[1].depreciation)

====
